---- MODULE Spec2Model ----
(***************************************************************************)
(* A model of the shell in src/src/main.rs: the tokenizer, the command     *)
(* parser, the redirection resolver and the dispatcher loop of main.       *)
(*                                                                         *)
(* Text is a sequence of one-character strings; a token, a path and a      *)
(* line are such sequences.  A line written to a stream or a file is one   *)
(* record: a sequence of characters and of literal message chunks.         *)
(***************************************************************************)
EXTENDS Naturals, Sequences, FiniteSets, TLC

VARIABLES
    stdin,      \* the lines still to be read from standard input
    pc,         \* where main is: "read", "wait", "exit0", "err", "panic",
                \* "parse"/"parsed" for the parser taken alone and
                \* "scan"/"scanned" for the tokenizer taken alone,
                \* "line"/"lined" for tokenize-then-parse of one line
    files,      \* the file system: path -> sequence of records
    cwd,        \* the process's current directory
    tty,        \* records written to the inherited streams 1 and 2 since
                \* the top of the current loop iteration
    child,      \* the spawned child the shell is blocked on, or NoChild
    tokens,     \* main's local tokens (the argument of new_token_parser)
    parsed,     \* the Result of new_token_parser(tokens)
    log,        \* per line read: the file system before it and what the
                \* command wrote through each resolved descriptor
    chars,      \* the characters tokenize_input's for loop has consumed
    tok         \* tokenize_input's locals: tokens, current_token, state

vars == <<stdin, pc, files, cwd, tty, child, tokens, parsed, log, chars, tok>>

(***************************************************************************)
(* Bounds of the model.                                                    *)
(***************************************************************************)
MaxItems == 2         \* arguments and redirections after the command name
MaxLines == 2         \* lines on standard input
MaxChildWrites == 1   \* records a child writes on each of its streams,
                      \* in any interleaving, before it exits
MaxTokens == 4        \* tokens handed to the parser taken alone
MaxChars == 5         \* characters handed to the tokenizer taken alone
MaxWords == 3         \* words of a line whose operators may be quoted

(***************************************************************************)
(* Text helpers.                                                           *)
(***************************************************************************)
RECURSIVE Flatten(_)
Flatten(ss) == IF ss = <<>> THEN <<>> ELSE Head(ss) \o Flatten(Tail(ss))

\* [&str].join(sep)
RECURSIVE Join(_, _)
Join(ss, sep) ==
    IF ss = <<>> THEN <<>>
    ELSE IF Len(ss) = 1 THEN ss[1]
    ELSE ss[1] \o sep \o Join(Tail(ss), sep)

\* char::is_whitespace, on the characters the model's lines contain
is_whitespace(ch) == ch \in {" ", "\t", "\n", "\r"}

RECURSIVE trim_start(_)
trim_start(s) ==
    IF s # <<>> /\ is_whitespace(Head(s)) THEN trim_start(Tail(s)) ELSE s

RECURSIVE trim_end(_)
trim_end(s) ==
    IF s # <<>> /\ is_whitespace(s[Len(s)])
    THEN trim_end(SubSeq(s, 1, Len(s) - 1))
    ELSE s

\* str::trim
trim(s) == trim_end(trim_start(s))

(***************************************************************************)
(* tokenize_input: one step of the match over (state, ch), then the loop   *)
(* and the final flush.                                                    *)
(***************************************************************************)
\* the grave accent character (a string literal cannot hold it)
Backtick == "GRAVE"

TokInit == [tokens |-> <<>>, current_token |-> <<>>, state |-> "Out"]

\* an unquoted state that pushes the pending token at every whitespace,
\* empty or not
StepOut_PushesEmpty(t, ch) ==
    IF ch = "\"" THEN [t EXCEPT !.state = "InDoubleQuote"]
    ELSE IF ch = "'" THEN [t EXCEPT !.state = "InSingleQuote"]
    ELSE IF is_whitespace(ch)
    THEN [t EXCEPT !.tokens = Append(@, t.current_token),
                   !.current_token = <<>>]
    ELSE IF ch = "\\"
    THEN [t EXCEPT !.state = "BackSlashOutsideQuote"]
    ELSE [t EXCEPT !.current_token = Append(@, ch)]

\* an unquoted state that keeps the quote character that opens a region
StepOut_KeepsQuote(t, ch) ==
    IF ch = "\""
    THEN [t EXCEPT !.state = "InDoubleQuote",
                   !.current_token = Append(@, ch)]
    ELSE IF ch = "'"
    THEN [t EXCEPT !.state = "InSingleQuote",
                   !.current_token = Append(@, ch)]
    ELSE IF is_whitespace(ch)
    THEN IF t.current_token # <<>>
         THEN [t EXCEPT !.tokens = Append(@, t.current_token),
                        !.current_token = <<>>]
         ELSE t
    ELSE IF ch = "\\"
    THEN [t EXCEPT !.state = "BackSlashOutsideQuote"]
    ELSE [t EXCEPT !.current_token = Append(@, ch)]

\* the arms (Out, '"'), (Out, '\'') and (Out, char)
StepOut(t, ch) ==
    IF ch = "\"" THEN [t EXCEPT !.state = "InDoubleQuote"]
    ELSE IF ch = "'" THEN [t EXCEPT !.state = "InSingleQuote"]
    ELSE IF is_whitespace(ch)
    THEN IF t.current_token # <<>>
         THEN [t EXCEPT !.tokens = Append(@, t.current_token),
                        !.current_token = <<>>]
         ELSE t
    ELSE IF ch = "\\"
    THEN [t EXCEPT !.state = "BackSlashOutsideQuote"]
    ELSE [t EXCEPT !.current_token = Append(@, ch)]

\* an escape outside quotes that still lets a quote character open a
\* quoted region
StepBackSlashOutsideQuote_QuoteOpens(t, ch) ==
    IF ch = "\"" THEN [t EXCEPT !.state = "InDoubleQuote"]
    ELSE IF ch = "'" THEN [t EXCEPT !.state = "InSingleQuote"]
    ELSE [t EXCEPT !.current_token = Append(@, ch), !.state = "Out"]

\* the arm (BackSlashOutsideQuote, any)
StepBackSlashOutsideQuote(t, ch) ==
    [t EXCEPT !.current_token = Append(@, ch), !.state = "Out"]

\* a single-quoted state in which a backslash escapes the next character
StepInSingleQuote_Escapes(t, ch) ==
    IF ch = "'" THEN [t EXCEPT !.state = "Out"]
    ELSE IF ch = "\\" THEN [t EXCEPT !.state = "BackSlashOutsideQuote"]
    ELSE [t EXCEPT !.current_token = Append(@, ch)]

\* the arms (InSingleQuote, '\'') and (InSingleQuote, any)
StepInSingleQuote(t, ch) ==
    IF ch = "'" THEN [t EXCEPT !.state = "Out"]
    ELSE [t EXCEPT !.current_token = Append(@, ch)]

\* a double-quoted state in which whitespace ends the token
StepInDoubleQuote_SplitsOnSpace(t, ch) ==
    IF ch = "\"" THEN [t EXCEPT !.state = "Out"]
    ELSE IF ch = "\\"
    THEN [t EXCEPT !.state = "BackSlashInDoubleQuote"]
    ELSE IF is_whitespace(ch)
    THEN [t EXCEPT !.tokens = Append(@, t.current_token),
                   !.current_token = <<>>]
    ELSE [t EXCEPT !.current_token = Append(@, ch)]

\* the arms (InDoubleQuote, '"') and (InDoubleQuote, any)
StepInDoubleQuote(t, ch) ==
    IF ch = "\"" THEN [t EXCEPT !.state = "Out"]
    ELSE IF ch = "\\"
    THEN [t EXCEPT !.state = "BackSlashInDoubleQuote"]
    ELSE [t EXCEPT !.current_token = Append(@, ch)]

\* an escape that drops the backslash before every character
StepBackSlashInDoubleQuote_DropsBackslash(t, ch) ==
    [t EXCEPT !.current_token = Append(@, ch), !.state = "InDoubleQuote"]

\* the arm (BackSlashInDoubleQuote, any)
StepBackSlashInDoubleQuote(t, ch) ==
    IF ch \in {"$", Backtick, "\\", "\"", "\n"}
    THEN [t EXCEPT !.current_token = Append(@, ch),
                   !.state = "InDoubleQuote"]
    ELSE [t EXCEPT !.current_token = Append(Append(@, "\\"), ch),
                   !.state = "InDoubleQuote"]

\* match (&state, ch): the arms grouped by state, in the order of the source
TokStep(t, ch) ==
    CASE t.state = "Out" -> StepOut(t, ch)
      [] t.state = "BackSlashOutsideQuote" -> StepBackSlashOutsideQuote(t, ch)
      [] t.state = "InSingleQuote" -> StepInSingleQuote(t, ch)
      [] t.state = "InDoubleQuote" -> StepInDoubleQuote(t, ch)
      [] t.state = "BackSlashInDoubleQuote" ->
            StepBackSlashInDoubleQuote(t, ch)

RECURSIVE TokLoop(_, _, _)
TokLoop(input, i, t) ==
    IF i > Len(input) THEN t ELSE TokLoop(input, i + 1, TokStep(t, input[i]))

\* a tokenizer that returns without pushing the pending token
tokenize_input_NoFlush(input) == TokLoop(input, 1, TokInit).tokens

tokenize_input(input) ==
    LET t == TokLoop(input, 1, TokInit)
    IN  IF t.current_token # <<>>
        THEN Append(t.tokens, t.current_token)
        ELSE t.tokens

(***************************************************************************)
(* new_token_parser.  A redirection map is a function whose domain is the  *)
(* set of descriptors that have an entry (HashMap<u8, Redirection>).       *)
(***************************************************************************)
NoPending == [fd |-> 0, mode |-> "None"]

EmptyMap == [d \in {} |-> 0]

\* an insert that keeps an entry already present
MapInsert_KeepFirst(m, k, v) ==
    [d \in DOMAIN m \cup {k} |-> IF d \in DOMAIN m THEN m[d] ELSE v]

\* HashMap::insert
MapInsert(m, k, v) == [d \in DOMAIN m \cup {k} |-> IF d = k THEN v ELSE m[d]]

ParseInit == [argv |-> <<>>, pending |-> NoPending, redirects |-> EmptyMap]

\* a parser that pushes the path of a redirection to the arguments too
ParseStep_PathAlsoArgument(p, token) ==
    CASE token \in {<<">">>, <<"1", ">">>} ->
            [p EXCEPT !.pending = [fd |-> 1, mode |-> "Truncate"]]
      [] token \in {<<">", ">">>, <<"1", ">", ">">>} ->
            [p EXCEPT !.pending = [fd |-> 1, mode |-> "Append"]]
      [] token = <<"2", ">">> ->
            [p EXCEPT !.pending = [fd |-> 2, mode |-> "Truncate"]]
      [] token = <<"2", ">", ">">> ->
            [p EXCEPT !.pending = [fd |-> 2, mode |-> "Append"]]
      [] OTHER ->
            IF p.pending # NoPending
            THEN [p EXCEPT
                    !.redirects = MapInsert(@, p.pending.fd,
                        [fd |-> p.pending.fd, mode |-> p.pending.mode,
                         path |-> token]),
                    !.pending = NoPending,
                    !.argv = Append(@, token)]
            ELSE [p EXCEPT !.argv = Append(@, token)]

ParseStep(p, token) ==
    CASE token \in {<<">">>, <<"1", ">">>} ->
            [p EXCEPT !.pending = [fd |-> 1, mode |-> "Truncate"]]
      [] token \in {<<">", ">">>, <<"1", ">", ">">>} ->
            [p EXCEPT !.pending = [fd |-> 1, mode |-> "Append"]]
      [] token = <<"2", ">">> ->
            [p EXCEPT !.pending = [fd |-> 2, mode |-> "Truncate"]]
      [] token = <<"2", ">", ">">> ->
            [p EXCEPT !.pending = [fd |-> 2, mode |-> "Append"]]
      [] OTHER ->
            IF p.pending # NoPending
            THEN [p EXCEPT
                    !.redirects = MapInsert(@, p.pending.fd,
                        [fd |-> p.pending.fd, mode |-> p.pending.mode,
                         path |-> token]),
                    !.pending = NoPending]
            ELSE [p EXCEPT !.argv = Append(@, token)]

RECURSIVE ParseLoop(_, _, _)
ParseLoop(toks, i, p) ==
    IF i > Len(toks) THEN p ELSE ParseLoop(toks, i + 1, ParseStep(p, toks[i]))

SyntaxError == "syntax error: redirection without file"

\* a parser that forgets the check of a pending operator
new_token_parser_NoPendingCheck(toks) ==
    LET p == ParseLoop(toks, 1, ParseInit)
    IN  [ok |-> TRUE, err |-> "", argv |-> p.argv, redirects |-> p.redirects]

new_token_parser(toks) ==
    LET p == ParseLoop(toks, 1, ParseInit)
    IN  IF p.pending # NoPending
        THEN [ok |-> FALSE, err |-> SyntaxError,
              argv |-> <<>>, redirects |-> EmptyMap]
        ELSE [ok |-> TRUE, err |-> "",
              argv |-> p.argv, redirects |-> p.redirects]

(***************************************************************************)
(* The environment main runs in.                                           *)
(***************************************************************************)
kw_type == <<"t", "y", "p", "e">>
kw_echo == <<"e", "c", "h", "o">>
kw_exit == <<"e", "x", "i", "t">>
kw_pwd == <<"p", "w", "d">>
kw_cd == <<"c", "d">>
kw_ls == <<"l", "s">>
kw_no == <<"n", "o">>

BUILTIN_COMMANDS == {kw_type, kw_echo, kw_exit, kw_pwd}

\* The literal arms of main's match on the command name.
DispatchArms == {kw_type, kw_echo, kw_exit, kw_pwd, kw_cd}

\* The index built from PATH: /bin holds ls and also a pwd executable.
path_commands == (kw_ls :> <<"/bin/ls">>) @@ (kw_pwd :> <<"/bin/pwd">>)

Root == <<"/">>
Home == <<"/", "h">>
Dirs == {Root, Home}

\* env::var("HOME").unwrap_or_else(|_| "/")
HomeEnv == [set |-> TRUE, val |-> Home]
fallback == IF HomeEnv.set THEN HomeEnv.val ELSE Root

PathF == <<"f">>
PathG == <<"g">>
PathBad == <<"d", "/", "f">>

\* Paths whose open fails: the parent directory d does not exist.
Unopenable == {PathBad}

Prompt == <<"$ ">>
Hint == <<"Did you mean ", Backtick, "exit 0", Backtick, "?">>

(***************************************************************************)
(* The redirection resolver.  An execution state st is                     *)
(* [files, tty, wrote]; a sink is a file handle or an inherited stream.    *)
(***************************************************************************)
SetFile(fs, path, content) ==
    [q \in DOMAIN fs \cup {path} |-> IF q = path THEN content ELSE fs[q]]

\* an open that creates, and so truncates, in both modes
open_redir_AlwaysCreate(fs, redir) ==
    IF redir.path \in Unopenable
    THEN [ok |-> FALSE, files |-> fs]
    ELSE [ok |-> TRUE, files |-> SetFile(fs, redir.path, <<>>)]

\* File::create truncates or creates; OpenOptions create+append creates
\* the file if absent and leaves its content.
open_redir(fs, redir) ==
    IF redir.path \in Unopenable
    THEN [ok |-> FALSE, files |-> fs]
    ELSE IF redir.mode = "Truncate"
    THEN [ok |-> TRUE, files |-> SetFile(fs, redir.path, <<>>)]
    ELSE [ok |-> TRUE,
          files |-> IF redir.path \in DOMAIN fs
                    THEN fs
                    ELSE SetFile(fs, redir.path, <<>>)]

Inherited(fd) == [kind |-> "tty", fd |-> fd, path |-> <<>>,
                  append |-> FALSE, pos |-> 0]

Handle(redir) == [kind |-> "file", fd |-> redir.fd, path |-> redir.path,
                  append |-> (redir.mode = "Append"), pos |-> 0]

writer_for_fd(st, redirects, fd) ==
    IF fd \in DOMAIN redirects
    THEN LET o == open_redir(st.files, redirects[fd])
         IN  [ok |-> o.ok, st |-> [st EXCEPT !.files = o.files],
              sink |-> Handle(redirects[fd])]
    ELSE IF fd \in {1, 2}
    THEN [ok |-> TRUE, st |-> st, sink |-> Inherited(fd)]
    ELSE [ok |-> FALSE, st |-> st, sink |-> Inherited(fd)]

\* A write of one record at a handle's offset (records are the unit).
WriteAt(content, pos, rec) ==
    [i \in 1..(IF pos < Len(content) THEN Len(content) ELSE pos + 1) |->
        IF i = pos + 1 THEN rec
        ELSE IF i <= Len(content) THEN content[i]
        ELSE <<>>]

\* writeln!(sink, rec), by a writer holding descriptor d
Write(st, sink, d, rec) ==
    LET st1 == [st EXCEPT !.wrote[d] = Append(@, rec)]
    IN  IF sink.kind = "tty"
        THEN [st1 EXCEPT !.tty[sink.fd] = Append(@, rec)]
        ELSE [st1 EXCEPT !.files = SetFile(@, sink.path,
                 IF sink.append
                 THEN @[sink.path] \o <<rec>>
                 ELSE WriteAt(@[sink.path], sink.pos, rec))]

\* println! and eprintln!: the process's own streams, whatever the
\* command's redirections are
println(st, rec) == [st EXCEPT !.tty[1] = Append(@, rec)]
eprintln(st, rec) == [st EXCEPT !.tty[2] = Append(@, rec)]

NoChild == [running |-> FALSE]

\* What one loop iteration leaves behind.
Continue(st, dir) ==
    [pc |-> "read", st |-> st, cwd |-> dir, child |-> NoChild]

\* The ? operator in main: main returns Err, the runtime prints it on
\* standard error and the process ends with a failure status.
ReturnErr(st, dir) ==
    [pc |-> "err", st |-> eprintln(st, <<"Error: Os">>), cwd |-> dir,
     child |-> NoChild]

\* A panic (unwrap on None or on Err): message on standard error, the
\* process ends.
Panic(st, dir) ==
    [pc |-> "panic", st |-> eprintln(st, <<"thread 'main' panicked">>),
     cwd |-> dir, child |-> NoChild]

Exit0(st, dir) == [pc |-> "exit0", st |-> st, cwd |-> dir, child |-> NoChild]

(***************************************************************************)
(* The dispatcher: one operator per arm of main's match on the command.    *)
(* env holds what the operating system decides during the iteration:       *)
(* cwd_ok (current_dir succeeds), spawn_ok (the child can be spawned) and  *)
(* first (the descriptor whose entry HashMap::values yields first).        *)
(***************************************************************************)
\* a report that looks the name up in the index before the builtin set
TypeMsg_IndexFirst(query) ==
    IF query \in DOMAIN path_commands
    THEN query \o <<" is ">> \o path_commands[query]
    ELSE IF query \in BUILTIN_COMMANDS
    THEN query \o <<" is a shell builtin">>
    ELSE query \o <<": not found">>

TypeMsg(query) ==
    IF query \in BUILTIN_COMMANDS
    THEN query \o <<" is a shell builtin">>
    ELSE IF query \in DOMAIN path_commands
    THEN query \o <<" is ">> \o path_commands[query]
    ELSE query \o <<": not found">>

MissingOperand == <<"type: missing operand">>

do_type(st, dir, args, redirects) ==
    IF args = <<>>
    THEN LET w == writer_for_fd(st, redirects, 2)
         IN  IF ~w.ok THEN ReturnErr(w.st, dir)
             ELSE Continue(Write(w.st, w.sink, 2, MissingOperand), dir)
    ELSE LET w == writer_for_fd(st, redirects, 1)
         IN  IF ~w.ok THEN ReturnErr(w.st, dir)
             ELSE Continue(Write(w.st, w.sink, 1, TypeMsg(args[1])), dir)

do_echo(st, dir, args, redirects) ==
    LET w1 == writer_for_fd(st, redirects, 1)
    IN  IF ~w1.ok THEN ReturnErr(w1.st, dir)
        ELSE LET w2 == writer_for_fd(w1.st, redirects, 2)
             IN  IF ~w2.ok THEN ReturnErr(w2.st, dir)
                 ELSE Continue(Write(w2.st, w1.sink, 1, Join(args, <<" ">>)),
                               dir)

do_exit(st, dir, args) ==
    IF args # <<>> /\ args[1] = <<"0">>
    THEN Exit0(st, dir)
    ELSE Continue(println(st, Hint), dir)

do_pwd(st, dir, redirects, env) ==
    IF env.cwd_ok
    THEN LET w == writer_for_fd(st, redirects, 1)
         IN  IF ~w.ok THEN ReturnErr(w.st, dir)
             ELSE Continue(Write(w.st, w.sink, 1, dir), dir)
    ELSE LET w == writer_for_fd(st, redirects, 2)
         IN  IF ~w.ok THEN ReturnErr(w.st, dir)
             ELSE Continue(Write(w.st, w.sink, 2, <<"pwd: Os">>), dir)

NoSuchDir(query) == <<"cd: ">> \o query \o <<": No such file or directory">>

\* canonicalize succeeds on any existing path; set_current_dir only on a
\* directory, and its Err is unwrapped.
do_cd(st, dir, args) ==
    LET query == IF args = <<>> THEN fallback
                 ELSE IF args[1] = <<"~">> THEN fallback
                 ELSE args[1]
    IN  IF query \notin Dirs \cup DOMAIN st.files
        THEN Continue(eprintln(st, NoSuchDir(query)), dir)
        ELSE IF query \in Dirs
        THEN Continue(st, query)
        ELSE Panic(st, dir)

\* the order in which redirects.values() yields the entries
ValuesOrder(redirects, first) ==
    SelectSeq(<<first, 3 - first>>, LAMBDA d : d \in DOMAIN redirects)

\* the for loop over redirects.values(): open each file, ? on failure
RECURSIVE OpenAll(_, _, _)
OpenAll(fs, redirects, order) ==
    IF order = <<>> THEN [ok |-> TRUE, files |-> fs]
    ELSE LET o == open_redir(fs, redirects[Head(order)])
         IN  IF ~o.ok THEN o ELSE OpenAll(o.files, redirects, Tail(order))

\* a spawn that leaves the child's standard error inherited whatever the
\* redirection map holds
Spawned_StderrInherited(cmd, args, redirects) ==
    [running |-> TRUE, cmd |-> cmd, args |-> args, stdin |-> "inherit",
     out |-> [d \in {1, 2} |-> IF d = 1 /\ d \in DOMAIN redirects
                               THEN Handle(redirects[d])
                               ELSE Inherited(d)],
     n |-> [d \in {1, 2} |-> 0]]

\* Command::new(cmd).args(argv).stdin(inherit).stderr(inherit), stdout
\* left at its default for status(), which is inherit
Spawned(cmd, args, redirects) ==
    [running |-> TRUE, cmd |-> cmd, args |-> args, stdin |-> "inherit",
     out |-> [d \in {1, 2} |-> IF d \in DOMAIN redirects
                               THEN Handle(redirects[d])
                               ELSE Inherited(d)],
     n |-> [d \in {1, 2} |-> 0]]

NotFound(cmd) == cmd \o <<": not found">>

do_external(st, dir, cmd, args, redirects, env) ==
    IF cmd \in DOMAIN path_commands
    THEN LET o == OpenAll(st.files, redirects,
                          ValuesOrder(redirects, env.first))
             st1 == [st EXCEPT !.files = o.files]
         IN  IF ~o.ok THEN ReturnErr(st1, dir)
             ELSE IF env.spawn_ok
             THEN [pc |-> "wait", st |-> st1, cwd |-> dir,
                   child |-> Spawned(cmd, args, redirects)]
             ELSE Continue(eprintln(st1, cmd \o <<": Os">>), dir)
    ELSE Continue(println(st, NotFound(cmd)), dir)

\* main's match cmd { ... }
dispatch(st, dir, argv, redirects, env) ==
    LET cmd == argv[1]
        args == Tail(argv)
    IN  CASE cmd = kw_type -> do_type(st, dir, args, redirects)
          [] cmd = kw_echo -> do_echo(st, dir, args, redirects)
          [] cmd = kw_exit -> do_exit(st, dir, args)
          [] cmd = kw_pwd -> do_pwd(st, dir, redirects, env)
          [] cmd = kw_cd -> do_cd(st, dir, args)
          [] OTHER -> do_external(st, dir, cmd, args, redirects, env)

NotParsed == [ok |-> FALSE, err |-> "", argv |-> <<>>,
              redirects |-> EmptyMap]

\* The decisions of the operating system the iteration consults; the ones
\* it never looks at are left at their defaults.
Consulted(p) ==
    LET runs == p.ok /\ p.argv # <<>>
        spawns == /\ runs
                  /\ p.argv[1] \notin DispatchArms
                  /\ p.argv[1] \in DOMAIN path_commands
    IN  [cwd_ok : IF runs /\ p.argv[1] = kw_pwd THEN BOOLEAN ELSE {TRUE},
         spawn_ok : IF spawns THEN BOOLEAN ELSE {TRUE},
         first : IF spawns /\ DOMAIN p.redirects = {1, 2} THEN {1, 2}
                 ELSE {1}]

\* a loop body that prints the parser's error on standard output
iteration_ErrorOnStdout(toks, p, fs, dir, env) ==
    LET st0 == [files |-> fs, tty |-> [d \in {1, 2} |-> <<>>],
                wrote |-> [d \in {1, 2} |-> <<>>]]
        st == println(st0, Prompt)
    IN  IF toks = <<>> THEN Continue(st, dir)
        ELSE IF ~p.ok THEN Continue(println(st, <<p.err>>), dir)
        ELSE IF p.argv = <<>> THEN Panic(st, dir)
        ELSE dispatch(st, dir, p.argv, p.redirects, env)

\* One iteration of main's loop, from the tokens of the line read_line
\* returned and their parse.
iteration(toks, p, fs, dir, env) ==
    LET st0 == [files |-> fs, tty |-> [d \in {1, 2} |-> <<>>],
                wrote |-> [d \in {1, 2} |-> <<>>]]
        st == println(st0, Prompt)
    IN  IF toks = <<>> THEN Continue(st, dir)
        ELSE IF ~p.ok THEN Continue(eprintln(st, <<p.err>>), dir)
        ELSE IF p.argv = <<>> THEN Panic(st, dir)
        ELSE dispatch(st, dir, p.argv, p.redirects, env)

(***************************************************************************)
(* The inputs: lines made of a command name, arguments and redirections.   *)
(***************************************************************************)
SeqsUpTo(S, n) == UNION {[1..k -> S] : k \in 0..n}

CmdWords == {kw_type, kw_echo, kw_exit, kw_pwd, kw_cd, kw_ls, kw_no}
ArgWords == {<<"0">>, kw_pwd, kw_ls}
OutOps == {<<">">>, <<">", ">">>, <<"2", ">">>, <<"2", ">", ">">>}
RedirOps == OutOps \cup {<<"1", ">">>, <<"1", ">", ">">>}
Paths == {PathF, PathG, PathBad}

Pairs == {o \o q : o \in {<<x>> : x \in OutOps}, q \in {<<y>> : y \in Paths}}

\* What follows the command name: arguments and operator/path pairs in
\* any order, and possibly a last operator with no path.
Items == {<<w>> : w \in ArgWords} \cup Pairs

Tails ==
    {Flatten(t) : t \in SeqsUpTo(Items, MaxItems)}
    \cup {Flatten(t) \o <<o>> :
            t \in SeqsUpTo(Items, MaxItems - 1), o \in OutOps}

\* A line is a tail alone, a command name and a tail, or type asked about
\* a command name.
WordSeqs ==
    Tails \cup {<<c>> \o t : c \in CmdWords, t \in Tails}
          \cup {<<kw_type, c>> : c \in CmdWords}

Lines == {Join(ws, <<" ">>) : ws \in WordSeqs}

\* tokenize_input(input.trim()) of each line as read_line returns it, with
\* its line break
Tokenized == [l \in Lines |-> tokenize_input(trim(l \o <<"\n">>))]

\* Standard input holds the same line MaxLines times over.
Scripts == {[i \in 1..MaxLines |-> l] : l \in Lines}

\* The file system the shell starts in: f holds a record, g does not exist.
Old == <<"old">>
InitFiles == PathF :> <<Old>>

ParseTokens == RedirOps \cup {kw_echo, PathF}

(***************************************************************************)
(* The shell as a state machine.                                           *)
(***************************************************************************)
Init ==
    /\ stdin \in Scripts
    /\ pc = "read"
    /\ files = InitFiles
    /\ cwd = Root
    /\ tty = [d \in {1, 2} |-> <<>>]
    /\ child = NoChild
    /\ tokens = <<>>
    /\ parsed = NotParsed
    /\ log = <<>>
    /\ chars = <<>>
    /\ tok = TokInit

\* The body of main's loop up to the next read_line, or up to the point
\* where child.status() blocks.  At end of input read_line returns an
\* empty string and the loop goes round.
ReadLine ==
    /\ pc = "read"
    /\ \E toks \in {IF stdin = <<>> THEN tokenize_input(trim(<<>>))
                     ELSE Tokenized[Head(stdin)]} :
       \E p \in {IF toks = <<>> THEN NotParsed
                  ELSE new_token_parser(toks)} :
       \E env \in Consulted(p) :
       \E r \in {iteration(toks, p, files, cwd, env)} :
            /\ pc' = r.pc
            /\ files' = r.st.files
            /\ cwd' = r.cwd
            /\ tty' = r.st.tty
            /\ child' = r.child
            /\ tokens' = toks
            /\ parsed' = p
            /\ log' = IF stdin = <<>> THEN log
                      ELSE Append(log, [line |-> Head(stdin),
                                        before |-> files,
                                        wrote |-> r.st.wrote])
    /\ stdin' = IF stdin = <<>> THEN stdin ELSE Tail(stdin)
    /\ UNCHANGED <<chars, tok>>

ChildRec(d) == <<IF d = 1 THEN "child stdout" ELSE "child stderr">>

\* The child writes one record on its stream d.
ChildWrite(d) ==
    /\ pc = "wait"
    /\ child.n[d] < MaxChildWrites
    /\ \E st1 \in {Write([files |-> files, tty |-> tty,
                          wrote |-> log[Len(log)].wrote],
                         child.out[d], d, ChildRec(d))} :
           /\ files' = st1.files
           /\ tty' = st1.tty
           /\ log' = [log EXCEPT ![Len(log)].wrote = st1.wrote]
    /\ child' = [child EXCEPT !.n[d] = @ + 1, !.out[d].pos = @ + 1]
    /\ UNCHANGED <<stdin, pc, cwd, tokens, parsed, chars, tok>>

\* The child, having written its output, exits and child.status() returns.
ChildExit ==
    /\ pc = "wait"
    /\ \A d \in {1, 2} : child.n[d] = MaxChildWrites
    /\ pc' = "read"
    /\ child' = NoChild
    /\ UNCHANGED <<stdin, files, cwd, tty, tokens, parsed, log, chars, tok>>

Next == ReadLine \/ ChildWrite(1) \/ ChildWrite(2) \/ ChildExit

Spec == Init /\ [][Next]_vars

(***************************************************************************)
(* The parser taken alone, on every short token sequence.                  *)
(***************************************************************************)
InitParse ==
    /\ stdin = <<>>
    /\ pc = "parse"
    /\ files = EmptyMap
    /\ cwd = Root
    /\ tty = [d \in {1, 2} |-> <<>>]
    /\ child = NoChild
    /\ tokens \in SeqsUpTo(ParseTokens, MaxTokens)
    /\ parsed = NotParsed
    /\ log = <<>>
    /\ chars = <<>>
    /\ tok = TokInit

Parse ==
    /\ pc = "parse"
    /\ parsed' = new_token_parser(tokens)
    /\ pc' = "parsed"
    /\ UNCHANGED <<stdin, files, cwd, tty, child, tokens, log, chars, tok>>

NextParse == Parse

SpecParse == InitParse /\ [][NextParse]_vars

(***************************************************************************)
(* The tokenizer taken alone, on every short input: the for loop consumes  *)
(* one character at a time and the input may end after any of them.        *)
(***************************************************************************)
Alphabet == {"a", " ", "'", "\"", "\\", "$", Backtick, "\n"}

InitTok ==
    /\ stdin = <<>>
    /\ pc = "scan"
    /\ files = EmptyMap
    /\ cwd = Root
    /\ tty = [d \in {1, 2} |-> <<>>]
    /\ child = NoChild
    /\ tokens = <<>>
    /\ parsed = NotParsed
    /\ log = <<>>
    /\ chars = <<>>
    /\ tok = TokInit

\* one turn of for ch in input.chars()
TokChar ==
    /\ pc = "scan"
    /\ Len(chars) < MaxChars
    /\ \E ch \in Alphabet :
        /\ chars' = Append(chars, ch)
        /\ tok' = TokStep(tok, ch)
    /\ UNCHANGED <<stdin, pc, files, cwd, tty, child, tokens, parsed, log>>

\* the input ends: the pending token is pushed and the tokens returned
TokEnd ==
    /\ pc = "scan"
    /\ pc' = "scanned"
    /\ tokens' = tokenize_input(chars)
    /\ UNCHANGED <<stdin, files, cwd, tty, child, parsed, log, chars, tok>>

NextTok == TokChar \/ TokEnd

SpecTok == InitTok /\ [][NextTok]_vars

(***************************************************************************)
(* main's tokenize-then-parse of one line, on lines whose redirection      *)
(* operators are written bare, in double quotes, in single quotes or with  *)
(* a backslash before the first character.                                 *)
(***************************************************************************)
DoubleQuoted(w) == <<"\"">> \o w \o <<"\"">>
SingleQuoted(w) == <<"'">> \o w \o <<"'">>
Escaped(w) == <<"\\">> \o w

Writings(w) == {w, DoubleQuoted(w), SingleQuoted(w), Escaped(w)}

WrittenWords == {kw_echo, PathF} \cup UNION {Writings(o) : o \in OutOps}

WrittenLines == {Join(ws, <<" ">>) : ws \in SeqsUpTo(WrittenWords, MaxWords)}

InitLine ==
    /\ stdin \in {<<l>> : l \in WrittenLines}
    /\ pc = "line"
    /\ files = EmptyMap
    /\ cwd = Root
    /\ tty = [d \in {1, 2} |-> <<>>]
    /\ child = NoChild
    /\ tokens = <<>>
    /\ parsed = NotParsed
    /\ log = <<>>
    /\ chars = <<>>
    /\ tok = TokInit

\* tokenize_input(input.trim()) of the line read, then new_token_parser
\* unless there is no token
TokenizeParse ==
    /\ pc = "line"
    /\ pc' = "lined"
    /\ stdin' = Tail(stdin)
    /\ chars' = trim(Head(stdin) \o <<"\n">>)
    /\ tok' = TokLoop(chars', 1, TokInit)
    /\ tokens' = tokenize_input(chars')
    /\ parsed' = IF tokens' = <<>> THEN NotParsed
                 ELSE new_token_parser(tokens')
    /\ UNCHANGED <<files, cwd, tty, child, log>>

NextLine == TokenizeParse

SpecLine == InitLine /\ [][NextLine]_vars

(***************************************************************************)
(* What the claims speak of.                                               *)
(***************************************************************************)
\* a command reached the dispatcher in the last iteration
Ran == parsed.ok /\ parsed.argv # <<>>
Cmd == parsed.argv[1]
Args == Tail(parsed.argv)
Redirects == parsed.redirects
Content(fs, path) == IF path \in DOMAIN fs THEN fs[path] ELSE <<>>
Last == log[Len(log)]

(***************************************************************************)
(* C1: no error of a command ends the shell process: main never returns    *)
(* an error, in particular not when a redirection target cannot be         *)
(* opened; the command is aborted and the loop reads the next line.        *)
(***************************************************************************)
C1_NoErrorEndsShell == pc # "err"

(***************************************************************************)
(* C2: when new_token_parser succeeds on a non-empty token sequence the    *)
(* argument vector is non-empty, so the dispatcher's unwrap of argv.next() *)
(* is defined and does not panic.                                          *)
(***************************************************************************)
C2_ArgvNonEmpty ==
    (tokens # <<>> /\ parsed.ok) => (parsed.argv # <<>> /\ pc # "panic")

(***************************************************************************)
(* C3: for a command that is neither a builtin nor in the executable       *)
(* index, the not-found diagnostic goes to the descriptor-2 sink (the      *)
(* target of 2> or 2>> if there is one, inherited standard error           *)
(* otherwise), nothing goes to descriptor 1, nothing is spawned and the    *)
(* shell continues.                                                        *)
(***************************************************************************)
C3_NotFoundOnDescriptor2 ==
    (Ran /\ Cmd \notin DispatchArms /\ Cmd \notin DOMAIN path_commands) =>
        LET msg == Cmd \o <<": not found">>
        IN  /\ pc = "read"
            /\ child = NoChild
            /\ tty[1] = <<Prompt>>
            /\ IF 2 \in DOMAIN Redirects
               THEN /\ tty[2] = <<>>
                    /\ LET c == Content(files, Redirects[2].path)
                       IN  c # <<>> /\ c[Len(c)] = msg
               ELSE tty[2] = <<msg>>

(***************************************************************************)
(* C4: exit ends the process exactly when it has a single argument that    *)
(* is 0; with no argument, another argument or more than one argument it   *)
(* prints the hint and the shell keeps running.                            *)
(***************************************************************************)
C4_ExitOnlyOnSingleZero ==
    (Ran /\ Cmd = kw_exit) =>
        IF Args = << <<"0">> >>
        THEN pc = "exit0"
        ELSE pc = "read" /\ tty[1] = <<Prompt, Hint>>

(***************************************************************************)
(* C5: what echo, pwd and cd write on a descriptor that the command        *)
(* redirects goes to the named file and not to the shell's inherited       *)
(* stream.                                                                 *)
(***************************************************************************)
C5_BuiltinsUseResolvedSinks ==
    (Ran /\ Cmd \in {kw_echo, kw_pwd, kw_cd} /\ pc = "read") =>
        /\ 1 \in DOMAIN Redirects => tty[1] = <<Prompt>>
        /\ 2 \in DOMAIN Redirects => tty[2] = <<>>

\* the two file systems agree outside the paths of P
SameOutside(fs0, fs1, P) ==
    \A q \in (DOMAIN fs0 \cup DOMAIN fs1) \ P :
        q \in DOMAIN fs0 /\ q \in DOMAIN fs1 /\ fs0[q] = fs1[q]

(***************************************************************************)
(* C6: type with an argument writes exactly one report to the              *)
(* descriptor-1 sink: builtin if the name is in the builtin set (also when *)
(* the index has it), else the indexed path, else not found; type with no  *)
(* argument writes the usage error to the descriptor-2 sink and nothing to *)
(* descriptor 1.                                                           *)
(***************************************************************************)
C6_TypeReports ==
    (Ran /\ Cmd = kw_type /\ pc = "read") =>
        IF Args # <<>>
        THEN LET q == Args[1]
                 msg == IF q \in BUILTIN_COMMANDS
                        THEN q \o <<" is a shell builtin">>
                        ELSE IF q \in DOMAIN path_commands
                        THEN q \o <<" is ">> \o path_commands[q]
                        ELSE q \o <<": not found">>
             IN  /\ Last.wrote[1] = <<msg>>
                 /\ Last.wrote[2] = <<>>
                 /\ tty[2] = <<>>
                 /\ IF 1 \in DOMAIN Redirects
                    THEN /\ tty[1] = <<Prompt>>
                         /\ files[Redirects[1].path] =
                              IF Redirects[1].mode = "Truncate" THEN <<msg>>
                              ELSE Content(Last.before, Redirects[1].path)
                                   \o <<msg>>
                         /\ SameOutside(Last.before, files,
                                        {Redirects[1].path})
                    ELSE tty[1] = <<Prompt, msg>> /\ files = Last.before
        ELSE LET msg == <<"type: missing operand">>
             IN  /\ Last.wrote[1] = <<>>
                 /\ Last.wrote[2] = <<msg>>
                 /\ tty[1] = <<Prompt>>
                 /\ IF 2 \in DOMAIN Redirects
                    THEN /\ tty[2] = <<>>
                         /\ files[Redirects[2].path] =
                              IF Redirects[2].mode = "Truncate" THEN <<msg>>
                              ELSE Content(Last.before, Redirects[2].path)
                                   \o <<msg>>
                         /\ SameOutside(Last.before, files,
                                        {Redirects[2].path})
                    ELSE tty[2] = <<msg>> /\ files = Last.before

\* type reported, into a file, a builtin that the index has too
C6_Witness ==
    /\ Ran /\ Cmd = kw_type /\ pc = "read"
    /\ Args = <<kw_pwd>>
    /\ kw_pwd \in DOMAIN path_commands
    /\ 1 \in DOMAIN Redirects

(***************************************************************************)
(* C7: a command that writes to a redirected descriptor, run twice in a    *)
(* row: with a truncate redirection the file holds only the second run's   *)
(* output; with an append redirection it holds the prior content, the      *)
(* first run's output and then the second run's output.                    *)
(***************************************************************************)
\* the same line has been run twice and the second run is over
TwoRuns ==
    /\ Len(log) >= 2
    /\ log[Len(log) - 1].line = Last.line
    /\ pc = "read"
    /\ Ran

TwiceHolds(d) ==
    LET first == log[Len(log) - 1]
        path == Redirects[d].path
    IN  (first.wrote[d] # <<>> /\ Last.wrote[d] # <<>>) =>
            Content(files, path) =
                IF Redirects[d].mode = "Truncate"
                THEN Last.wrote[d]
                ELSE Content(first.before, path) \o first.wrote[d]
                     \o Last.wrote[d]

\* the statement as claimed: for every redirected descriptor
C7_TwiceAsClaimed ==
    TwoRuns => \A d \in DOMAIN Redirects : TwiceHolds(d)

\* no other redirection of the command names the path of descriptor d
OwnPath(d) ==
    \A e \in DOMAIN Redirects \ {d} : Redirects[e].path # Redirects[d].path

\* C7 as amended: the same, for a descriptor whose path no other
\* redirection of the command names
C7_TwiceOwnPath ==
    TwoRuns => \A d \in DOMAIN Redirects : OwnPath(d) => TwiceHolds(d)

\* two runs appended their output after the content the file had
C7_Witness ==
    /\ TwoRuns
    /\ \E d \in DOMAIN Redirects :
        /\ OwnPath(d)
        /\ Redirects[d].mode = "Append"
        /\ Last.wrote[d] # <<>>
        /\ log[Len(log) - 1].wrote[d] # <<>>
        /\ Content(log[Len(log) - 1].before, Redirects[d].path) # <<>>

(***************************************************************************)
(* C8: a command found in the executable index is spawned with standard    *)
(* input inherited and, for each descriptor d of 1 and 2, with stream d    *)
(* the opened redirection file if the map has an entry for d and the       *)
(* shell's inherited stream otherwise; the shell reads no line until the   *)
(* child has exited.                                                       *)
(***************************************************************************)
\* while the shell waits, the child is wired as the redirection map says
C8_Wired ==
    pc = "wait" =>
        /\ Ran /\ Cmd \in DOMAIN path_commands /\ Cmd \notin DispatchArms
        /\ child.running
        /\ child.cmd = Cmd
        /\ child.stdin = "inherit"
        /\ \A d \in {1, 2} :
            IF d \in DOMAIN Redirects
            THEN /\ child.out[d].kind = "file"
                 /\ child.out[d].path = Redirects[d].path
                 /\ child.out[d].append = (Redirects[d].mode = "Append")
                 /\ Redirects[d].path \in DOMAIN files
            ELSE child.out[d].kind = "tty" /\ child.out[d].fd = d

\* a record the child writes on stream d lands in the redirection file of
\* d, or on the inherited stream d when d is not redirected; and while the
\* shell waits no line is read
C8_Step ==
    pc = "wait" =>
        /\ stdin' = stdin
        /\ pc' = "read" => child' = NoChild
        /\ \A d \in {1, 2} :
            (pc' = "wait" /\ child'.n[d] = child.n[d] + 1) =>
                IF d \in DOMAIN Redirects
                THEN /\ tty' = tty
                     /\ \E i \in 1..Len(files'[Redirects[d].path]) :
                            files'[Redirects[d].path][i] = ChildRec(d)
                     /\ SameOutside(files, files', {Redirects[d].path})
                ELSE /\ tty'[d] = Append(tty[d], ChildRec(d))
                     /\ tty'[3 - d] = tty[3 - d]
                     /\ files' = files

\* a shell at its read point has no child running
C8_Blocked == pc = "read" => child = NoChild

C8_ChildStreams == [](C8_Wired /\ C8_Blocked) /\ [][C8_Step]_vars

\* a child with both descriptors redirected has written on each
C8_Witness ==
    /\ pc = "wait"
    /\ DOMAIN Redirects = {1, 2}
    /\ child.n[1] = 1 /\ child.n[2] = 1

(***************************************************************************)
(* C9: new_token_parser fails with the syntax error exactly when the last  *)
(* token is a redirection operator; on every other token sequence it       *)
(* succeeds.                                                               *)
(***************************************************************************)
C9_ErrorIffDangling ==
    pc = "parsed" =>
        /\ ~parsed.ok <=> (tokens # <<>> /\ tokens[Len(tokens)] \in RedirOps)
        /\ ~parsed.ok => parsed.err = "syntax error: redirection without file"

\* a parse failed on a sequence that holds a complete pair before the
\* dangling operator
C9_Witness ==
    /\ pc = "parsed"
    /\ ~parsed.ok
    /\ Len(tokens) >= 3
    /\ tokens[1] \in RedirOps
    /\ tokens[2] \notin RedirOps

(***************************************************************************)
(* C10: after a successful parse the redirection map has keys within 1     *)
(* and 2, each entry's fd is its key, and the entry of a descriptor is     *)
(* the mode and path of the last operator/path pair for that descriptor    *)
(* in the token sequence; the entries of 1 and 2 do not affect each other. *)
(***************************************************************************)
OpsOf(d) ==
    IF d = 1 THEN {<<">">>, <<"1", ">">>, <<">", ">">>, <<"1", ">", ">">>}
    ELSE {<<"2", ">">>, <<"2", ">", ">">>}

\* the positions of the operators for d that a path follows
PairsOf(toks, d) ==
    {i \in 1..(Len(toks) - 1) :
        toks[i] \in OpsOf(d) /\ toks[i + 1] \notin RedirOps}

MaxOf(S) == CHOOSE i \in S : \A j \in S : j <= i

C10_LastPairWins ==
    (pc = "parsed" /\ parsed.ok) =>
        /\ DOMAIN Redirects \subseteq {1, 2}
        /\ \A d \in {1, 2} :
            IF PairsOf(tokens, d) = {}
            THEN d \notin DOMAIN Redirects
            ELSE LET i == MaxOf(PairsOf(tokens, d))
                 IN  /\ d \in DOMAIN Redirects
                     /\ Redirects[d].fd = d
                     /\ Redirects[d].path = tokens[i + 1]
                     /\ Redirects[d].mode =
                          IF tokens[i] \in {<<">">>, <<"1", ">">>, <<"2", ">">>}
                          THEN "Truncate" ELSE "Append"

\* two pairs for descriptor 1 that differ, the later one retained
C10_Witness ==
    /\ pc = "parsed" /\ parsed.ok
    /\ Len(tokens) = 4
    /\ tokens[1] = <<">">> /\ tokens[3] = <<"1", ">", ">">>
    /\ tokens[2] # tokens[4]
    /\ Redirects[1].path = tokens[4]

(***************************************************************************)
(* What the claims about the tokenizer speak of.                           *)
(***************************************************************************)
\* the step is a turn of the for loop
Turn == chars' # chars
\* the character that turn consumes
Ch == chars'[Len(chars')]
Whitespace == {" ", "\t", "\n", "\r"}
IsPrefix(s, t) == Len(s) <= Len(t) /\ SubSeq(t, 1, Len(s)) = s
Quoted == {"InSingleQuote", "InDoubleQuote", "BackSlashInDoubleQuote"}

(***************************************************************************)
(* C11: tokenize_input starts a new token only at unquoted, unescaped      *)
(* whitespace: there the pending token, if any, is pushed; at every other  *)
(* character the token list is unchanged and the pending token is only     *)
(* extended, so adjacent quoted and unquoted segments are concatenated     *)
(* left to right; whitespace inside single or double quotes is appended to *)
(* the pending token literally.                                            *)
(***************************************************************************)
C11_SplitStep ==
    Turn =>
        IF tok.state = "Out" /\ Ch \in Whitespace
        THEN /\ tok'.current_token = <<>>
             /\ tok'.tokens = IF tok.current_token = <<>> THEN tok.tokens
                              ELSE Append(tok.tokens, tok.current_token)
        ELSE /\ tok'.tokens = tok.tokens
             /\ IsPrefix(tok.current_token, tok'.current_token)
             /\ (tok.state \in Quoted /\ Ch \in Whitespace) =>
                    /\ Len(tok'.current_token) > Len(tok.current_token)
                    /\ tok'.current_token[Len(tok'.current_token)] = Ch

C11_SplitsOnlyAtBareWhitespace == [][C11_SplitStep]_vars

\* an unquoted segment, a quoted blank and another unquoted segment came
\* out as one token
C11_Witness ==
    /\ pc = "scanned"
    /\ chars = <<"a", "'", " ", "'", "a">>
    /\ tokens = << <<"a", " ", "a">> >>

(***************************************************************************)
(* C12: inside double quotes, a backslash followed by one of $, the grave  *)
(* accent, backslash, double quote or newline appends only that character  *)
(* to the token; followed by any other character it appends the backslash  *)
(* and the character; either way the tokenizer is back in the              *)
(* double-quoted state.                                                    *)
(***************************************************************************)
C12_EscapeStep ==
    (Turn /\ tok.state = "BackSlashInDoubleQuote") =>
        /\ tok'.state = "InDoubleQuote"
        /\ tok'.tokens = tok.tokens
        /\ tok'.current_token =
             IF Ch \in {"$", "GRAVE", "\\", "\"", "\n"}
             THEN tok.current_token \o <<Ch>>
             ELSE tok.current_token \o <<"\\", Ch>>

\* the backslash itself is not appended when it is read in double quotes
C12_BackslashStep ==
    (Turn /\ tok.state = "InDoubleQuote" /\ Ch = "\\") =>
        /\ tok'.state = "BackSlashInDoubleQuote"
        /\ tok'.tokens = tok.tokens
        /\ tok'.current_token = tok.current_token

C12_DoubleQuoteEscapes == [][C12_EscapeStep /\ C12_BackslashStep]_vars

\* an honoured escape and an unrecognised one in the same quoted region
C12_Witness ==
    /\ pc = "scanned"
    /\ chars = <<"\"", "\\", "$", "\\", "a">>
    /\ tokens = << <<"$", "\\", "a">> >>

(***************************************************************************)
(* C13: inside single quotes every character other than the single quote   *)
(* (backslash, double quote and whitespace included) is appended to the    *)
(* pending token as it is, and the tokenizer leaves the single-quoted      *)
(* state only on the next single quote, which is not appended.             *)
(***************************************************************************)
C13_SingleQuoteStep ==
    (Turn /\ tok.state = "InSingleQuote") =>
        /\ tok'.tokens = tok.tokens
        /\ IF Ch = "'"
           THEN tok'.state = "Out" /\ tok'.current_token = tok.current_token
           ELSE /\ tok'.state = "InSingleQuote"
                /\ tok'.current_token = tok.current_token \o <<Ch>>

C13_SingleQuotesVerbatim == [][C13_SingleQuoteStep]_vars

\* a backslash, a double quote and a blank between single quotes
C13_Witness ==
    /\ pc = "scanned"
    /\ chars = <<"'", "\\", "\"", " ", "'">>
    /\ tokens = << <<"\\", "\"", " ">> >>

(***************************************************************************)
(* C14: tokenize_input returns a token sequence for every input and never  *)
(* reports an error.  At end of input a non-empty pending token is the     *)
(* final token.  When a quote is left unterminated, every character after  *)
(* it, up to the end of input, goes into the pending token under that      *)
(* quote's rules, and no token is split off after the quote opened.        *)
(***************************************************************************)
\* the tokenizer's locals after the first j characters
After(j) == TokLoop(SubSeq(chars, 1, j), 1, TokInit)

\* where the quote that is still open was opened
OpenedAt ==
    CHOOSE j \in 1..Len(chars) :
        /\ After(j - 1).state = "Out"
        /\ \A k \in j..Len(chars) : After(k).state \in Quoted

\* what a double-quoted region with no closing quote contributes
RECURSIVE InDoubleQuotes(_)
InDoubleQuotes(s) ==
    IF s = <<>> THEN <<>>
    ELSE IF Head(s) # "\\" THEN <<Head(s)>> \o InDoubleQuotes(Tail(s))
    ELSE IF Len(s) = 1 THEN <<>>
    ELSE IF s[2] \in {"$", "GRAVE", "\\", "\"", "\n"}
    THEN <<s[2]>> \o InDoubleQuotes(Tail(Tail(s)))
    ELSE <<"\\", s[2]>> \o InDoubleQuotes(Tail(Tail(s)))

C14_TotalAndFlushes ==
    pc = "scanned" =>
        /\ tokens \in Seq(Seq(Alphabet))
        /\ tokens = IF tok.current_token = <<>> THEN tok.tokens
                    ELSE Append(tok.tokens, tok.current_token)
        /\ tok.state \in Quoted =>
             LET j == OpenedAt
                 rest == SubSeq(chars, j + 1, Len(chars))
                 pending == After(j - 1).current_token \o
                            IF chars[j] = "'" THEN rest
                            ELSE InDoubleQuotes(rest)
             IN  tokens = IF pending = <<>> THEN After(j - 1).tokens
                          ELSE Append(After(j - 1).tokens, pending)

\* a single quote opened in the middle of a token and never closed, with a
\* blank after it
C14_Witness ==
    /\ pc = "scanned"
    /\ chars = <<"a", " ", "a", "'", " ">>
    /\ tok.state = "InSingleQuote"
    /\ tokens = << <<"a">>, <<"a", " ">> >>

(***************************************************************************)
(* C15: on a successful parse the argument vector is exactly the           *)
(* subsequence, in the original order, of the tokens that are not          *)
(* redirection operators and do not immediately follow one; a              *)
(* non-operator token right after an operator is that operator's path and  *)
(* is not in the argument vector.                                          *)
(***************************************************************************)
IsArgument(toks, i) ==
    /\ toks[i] \notin RedirOps
    /\ i = 1 \/ toks[i - 1] \notin RedirOps

RECURSIVE ArgumentsFrom(_, _)
ArgumentsFrom(toks, i) ==
    IF i > Len(toks) THEN <<>>
    ELSE (IF IsArgument(toks, i) THEN <<toks[i]>> ELSE <<>>)
         \o ArgumentsFrom(toks, i + 1)

C15_ArgvIsSubsequence ==
    (pc = "parsed" /\ parsed.ok) =>
        /\ parsed.argv = ArgumentsFrom(tokens, 1)
        /\ Len(parsed.argv) =
             Cardinality({i \in 1..Len(tokens) : IsArgument(tokens, i)})
        /\ \A i \in 2..Len(tokens) :
             (tokens[i] \notin RedirOps /\ tokens[i - 1] \in RedirOps) =>
                \E d \in DOMAIN Redirects :
                    /\ tokens[i - 1] \in OpsOf(d)
                    /\ \E k \in i..Len(tokens) :
                         /\ tokens[k - 1] \in OpsOf(d)
                         /\ Redirects[d].path = tokens[k]

\* arguments on both sides of a redirection, the path left out
C15_Witness ==
    /\ pc = "parsed" /\ parsed.ok
    /\ tokens = <<kw_echo, <<">">>, PathF, PathF>>
    /\ parsed.argv = <<kw_echo, PathF>>
    /\ Redirects[1].path = PathF

(***************************************************************************)
(* C16: outside quotes a backslash is not emitted, and the character after *)
(* it is appended to the pending token as it is, whatever it is: an        *)
(* escaped whitespace does not split the token, an escaped quote character *)
(* opens no quoted region; the tokenizer is then back in the unquoted      *)
(* state.                                                                  *)
(***************************************************************************)
C16_BackslashStep ==
    (Turn /\ tok.state = "Out" /\ Ch = "\\") =>
        /\ tok'.state = "BackSlashOutsideQuote"
        /\ tok'.tokens = tok.tokens
        /\ tok'.current_token = tok.current_token

C16_EscapedStep ==
    (Turn /\ tok.state = "BackSlashOutsideQuote") =>
        /\ tok'.state = "Out"
        /\ tok'.tokens = tok.tokens
        /\ tok'.current_token = tok.current_token \o <<Ch>>

C16_UnquotedEscape == [][C16_BackslashStep /\ C16_EscapedStep]_vars

\* an escaped blank and an escaped single quote inside one token
C16_Witness ==
    /\ pc = "scanned"
    /\ chars = <<"a", "\\", " ", "\\", "'">>
    /\ tok.state = "Out"
    /\ tokens = << <<"a", " ", "'">> >>

(***************************************************************************)
(* C17: when parsing a line fails with the syntax error, the error is      *)
(* reported, no builtin or external command is run, no redirection target  *)
(* is opened, created or truncated, and the shell goes on to read the next *)
(* line.                                                                   *)
(***************************************************************************)
\* the last iteration ended in the parser's error
ParseFailed == tokens # <<>> /\ ~parsed.ok

\* nothing ran and no file was touched; the shell is about to read
NothingRan ==
    /\ pc = "read"
    /\ child = NoChild
    /\ cwd = Root
    /\ files = Last.before
    /\ Last.wrote = [d \in {1, 2} |-> <<>>]
    /\ tty[1] = <<Prompt>>

\* the statement as claimed: the report is on the descriptor-2 target of
\* the command, the path of its last 2> or 2>> if the line has one
C17_ReportedOnCommandTarget ==
    ParseFailed =>
        /\ NothingRan
        /\ IF PairsOf(tokens, 2) = {}
           THEN tty[2] = << <<"syntax error: redirection without file">> >>
           ELSE LET path == tokens[MaxOf(PairsOf(tokens, 2)) + 1]
                    c == Content(files, path)
                IN  /\ tty[2] = <<>>
                    /\ c # <<>>
                    /\ c[Len(c)] = <<"syntax error: redirection without file">>

\* C17 as amended: the report is on the shell's inherited standard error,
\* whatever redirections the line holds
C17_ReportedOnShellStderr ==
    ParseFailed =>
        /\ NothingRan
        /\ parsed.err = "syntax error: redirection without file"
        /\ tty[2] = << <<"syntax error: redirection without file">> >>

\* a line that redirects descriptor 2 to a path that could be opened and
\* ends in an operator with no path
C17_Witness ==
    /\ ParseFailed
    /\ tokens = <<kw_echo, <<"2", ">">>, PathG, <<">">> >>
    /\ PathG \notin DOMAIN files

(***************************************************************************)
(* C18: tokenize_input never produces an empty token.  A quoted region     *)
(* that contributes no characters (two single quotes or two double quotes  *)
(* in a row, opened outside quotes) adds nothing: the result is that of    *)
(* the input without them, so standing alone they yield no token.  A       *)
(* backslash that is the last character of the input, unquoted or inside   *)
(* double quotes, is dropped: the result is that of the input without it.  *)
(***************************************************************************)
\* s without its characters j and j + 1
Without2(s, j) == SubSeq(s, 1, j - 1) \o SubSeq(s, j + 2, Len(s))

C18_NoEmptyToken ==
    /\ \A i \in DOMAIN tok.tokens : tok.tokens[i] # <<>>
    /\ pc = "scanned" =>
        /\ \A i \in DOMAIN tokens : tokens[i] # <<>>
        /\ \A j \in 1..(Len(chars) - 1) :
             (/\ After(j - 1).state = "Out"
              /\ chars[j] \in {"'", "\""}
              /\ chars[j + 1] = chars[j]) =>
                tokens = tokenize_input(Without2(chars, j))
        /\ tok.state \in {"BackSlashOutsideQuote", "BackSlashInDoubleQuote"} =>
             /\ chars[Len(chars)] = "\\"
             /\ tokens = tokenize_input(SubSeq(chars, 1, Len(chars) - 1))

\* an empty quoted region standing alone, then a token, then a backslash
\* that ends the input
C18_Witness ==
    /\ pc = "scanned"
    /\ chars = <<"'", "'", " ", "a", "\\">>
    /\ tok.state = "BackSlashOutsideQuote"
    /\ tokens = << <<"a">> >>

(***************************************************************************)
(* C19: quoting or escaping does not protect a redirection operator: a     *)
(* line in which an operator is written in double quotes, in single quotes *)
(* or after a backslash is tokenized and parsed exactly like the same line *)
(* with the operator bare (the same argument vector and redirections, or   *)
(* the same syntax error).                                                 *)
(***************************************************************************)
\* the words of a line, split at its blanks
RECURSIVE Words(_, _)
Words(line, word) ==
    IF line = <<>> THEN (IF word = <<>> THEN <<>> ELSE <<word>>)
    ELSE IF Head(line) = " "
    THEN (IF word = <<>> THEN <<>> ELSE <<word>>) \o Words(Tail(line), <<>>)
    ELSE Words(Tail(line), Append(word, Head(line)))

\* a word that is a written operator, as the bare operator
BareWord(w) ==
    LET u == SelectSeq(w, LAMBDA ch : ch \notin {"'", "\"", "\\"})
    IN  IF u \in RedirOps THEN u ELSE w

BareLine(line) ==
    LET ws == Words(line, <<>>)
    IN  Join([i \in DOMAIN ws |-> BareWord(ws[i])], <<" ">>)

HasWrittenOperator(line) ==
    \E i \in DOMAIN Words(line, <<>>) :
        LET w == Words(line, <<>>)[i]
        IN  BareWord(w) \in RedirOps /\ w \notin RedirOps

C19_QuotedOperatorParsesAsBare ==
    pc = "lined" =>
        LET bare == tokenize_input(BareLine(chars))
        IN  /\ tokens = bare
            /\ parsed = IF bare = <<>> THEN NotParsed
                        ELSE new_token_parser(bare)

\* a double-quoted operator took the next word as its path, and a
\* single-quoted one at the end of the line made the parse fail
C19_Witness ==
    /\ pc = "lined"
    /\ HasWrittenOperator(chars)
    /\ \/ /\ chars = Join(<<kw_echo, DoubleQuoted(<<">">>), PathF>>, <<" ">>)
          /\ parsed.ok
          /\ parsed.argv = <<kw_echo>>
          /\ parsed.redirects[1].path = PathF
       \/ /\ chars = Join(<<kw_echo, SingleQuoted(<<"2", ">">>)>>, <<" ">>)
          /\ ~parsed.ok
          /\ parsed.err = "syntax error: redirection without file"

(***************************************************************************)
(* C20: the names type reports as a shell builtin are exactly the names    *)
(* the dispatcher runs in-process, without a lookup in the executable      *)
(* index: every name with its own arm in main's match, cd included, and    *)
(* no other name.                                                          *)
(***************************************************************************)
C20_TypeBuiltinsAreDispatchArms ==
    (Ran /\ Cmd = kw_type /\ Args # <<>> /\ pc = "read") =>
        (Last.wrote[1] = <<Args[1] \o <<" is a shell builtin">> >>
            <=> Args[1] \in DispatchArms)

====
